---- MODULE Spec2Model ----
(***************************************************************************)
(* A model of the GCE metadata server emulator (src/main.go): startup      *)
(* credential resolution, the custom attribute load, the header guard, the *)
(* route handlers and the mutex-guarded token operations.                  *)
(*                                                                         *)
(* main() is modelled as a sequence of steps (mainPc); every inbound       *)
(* request is served by one of NumReqs goroutines (thr).  A handler that   *)
(* cannot block is one action; the two token operations block on           *)
(* tokenMutex and on the identity provider and are split at those points.  *)
(* The response a goroutine writes is kept in `last` together with the     *)
(* request it answers.                                                     *)
(***************************************************************************)
EXTENDS Integers, Sequences, FiniteSets, TLC

(***************************************************************************)
(* Bounds of the model.                                                    *)
(***************************************************************************)
\* Number of requests that can be in service concurrently.
NumReqs == 2
\* Resolution of the model's clock: ticks per second.  Go's time.Duration
\* counts nanoseconds in an int64; TLC's integers are 32 bits wide, so the
\* model counts coarser ticks in a narrower word (see MinDuration).
TicksPerSecond == 4

Goroutines == 1..NumReqs

(***************************************************************************)
(* Program constants.                                                      *)
(***************************************************************************)
googleProjectID        == "GOOGLE_PROJECT_ID"
googleNumericProjectID == "GOOGLE_NUMERIC_PROJECT_ID"
googleAccessToken      == "GOOGLE_ACCESS_TOKEN"
googleIDToken          == "GOOGLE_ID_TOKEN"
googleAccountEmail     == "GOOGLE_ACCOUNT_EMAIL"

EnvNames ==
    {googleProjectID, googleNumericProjectID, googleAccessToken,
     googleIDToken, googleAccountEmail}

hostHeaders == {"metadata", "metadata.google.internal", "169.254.169.254"}

\* The seed of customAttributeMap.  A Go map[string]string is modelled as a
\* function from its keys to its values; the nil map is the empty function.
SeedAttributes == [k \in {"k1", "k2"} |-> IF k = "k1" THEN "v1" ELSE "v2"]
EmptyMap == [k \in {} |-> ""]

(***************************************************************************)
(* The environment the process runs in: environment variables, flags and   *)
(* the two files it may read.                                              *)
(***************************************************************************)
\* What an override variable holds when it is set.
EnvValue ==
    [n \in EnvNames |->
        CASE n = googleProjectID        -> "env-project"
          [] n = googleNumericProjectID -> "env-123456"
          [] n = googleAccessToken      -> "env-access-token"
          [] n = googleIDToken          -> "env-id-token"
          [] n = googleAccountEmail     -> "env-sa@example.com"]

EnvOf(set) == [n \in EnvNames |-> IF n \in set THEN EnvValue[n] ELSE ""]

\* What ioutil.ReadFile finds at cfg.flserviAccountFile: nothing readable,
\* a file that is no credentials document, a
\* service_account key, or an authorized_user credential (which
\* google.CredentialsFromJSON accepts and google.JWTConfigFromJSON rejects).
KeyFileKinds == {"missing", "garbage", "service_account", "authorized_user"}
KeyFileEmail == "key-sa@example.com"
KeyFileProject == "key-project"

\* The custom attribute file on disk.  "missing" cannot be opened; the others
\* are the JSON text the decoder meets first in the file.  A member of an
\* object is a string, a number, a nested object or null.
AttrKeys == {"a", "b"}
MemberValues ==
    {[t |-> "string", v |-> "1"], [t |-> "string", v |-> "2"],
     [t |-> "number", v |-> ""], [t |-> "object", v |-> ""],
     [t |-> "null", v |-> ""]}
JsonObjects ==
    UNION {[ks -> MemberValues] : ks \in SUBSET AttrKeys}
AttrFilesWide ==
    {[kind |-> "missing"], [kind |-> "invalid"], [kind |-> "null"],
     [kind |-> "array"], [kind |-> "string"]}
    \cup {[kind |-> "object", members |-> o] : o \in JsonObjects}
\* The file of the serving specification: the object {"a":"1","b":"2"}.
AttrFilesNarrow ==
    {[kind |-> "object",
      members |-> [k \in AttrKeys |->
                      [t |-> "string", v |-> IF k = "a" THEN "1" ELSE "2"]]]}

(***************************************************************************)
(* encoding/json decoding a value into a nil map[string]string, as         *)
(* json.NewDecoder(file).Decode(&data) does: [err, data].                  *)
(*  - not JSON (or an empty file): a syntax error (or io.EOF), data nil;   *)
(*  - null: no error, the map is set to nil;                               *)
(*  - an array, string or number: an UnmarshalTypeError, data nil;         *)
(*  - an object: every member is stored; a string member with its value, a *)
(*    null member with "" (null has no effect on the zero string), and a   *)
(*    number or nested object with "" and an UnmarshalTypeError, which     *)
(*    Decode returns once the whole object has been read.                  *)
(***************************************************************************)
DecodeMember(m) == IF m.t = "string" THEN m.v ELSE ""

MemberTypeError(m) == m.t \in {"number", "object"}

Decode(content) ==
    CASE content.kind = "invalid" -> [err |-> TRUE, data |-> EmptyMap]
      [] content.kind = "null" -> [err |-> FALSE, data |-> EmptyMap]
      [] content.kind \in {"array", "string"} ->
            [err |-> TRUE, data |-> EmptyMap]
      [] content.kind = "object" ->
            [err |-> \E k \in DOMAIN content.members :
                        MemberTypeError(content.members[k]),
             data |-> [k \in DOMAIN content.members |->
                          DecodeMember(content.members[k])]]

(***************************************************************************)
(* State.                                                                  *)
(***************************************************************************)
VARIABLES
    env,                \* the process environment: EnvNames -> string
    cfg,                \* the parsed flags (serverConfig)
    attrFile,           \* what is on disk at cfg.flcustomAttributeFile
    mainPc,             \* where main() is
    exit,               \* how the process ended, once mainPc = "exited"
    creds,              \* the process-wide *google.Credentials, or Nil
    customAttributeMap, \* the attribute store
    tokenMutex,         \* the goroutine holding tokenMutex, or 0
    thr,                \* per goroutine: its position and its request
    last,               \* the last response written, with its request
    startup             \* what startup resolution did (history)

vars ==
    <<env, cfg, attrFile, mainPc, exit, creds, customAttributeMap,
      tokenMutex, thr, last, startup>>

(***************************************************************************)
(* Requests.  A request has a Host header, a Metadata-Flavor header, the   *)
(* route the router matches with its path variables, and a raw query: a    *)
(* sequence of <<name, value>> pairs.                                      *)
(***************************************************************************)
Hosts == {"metadata.google.internal", "evil.example.com"}
Flavors == {"", "Google"}
Accts == {"default", "other"}
Audiences == {"", "A", "B"}
NoQuery == << >>
AudienceQuery(a) == << <<"audience", a>> >>
OtherQuery == << <<"recursive", "true">> >>

Target(route, acct, key, query) ==
    [route |-> route, acct |-> acct, key |-> key, query |-> query]

Targets ==
    {Target("root", "", "", q) : q \in {NoQuery, OtherQuery}}
    \cup {Target(r, "", "", NoQuery) :
            r \in {"project-id", "numeric-project-id", "sa-list", "unmatched"}}
    \cup {Target("attributes", "", k, NoQuery) : k \in {"k1", "a"}}
    \cup {Target("sa-index", a, "", NoQuery) : a \in Accts}
    \cup {Target("sa-key", "default", k, NoQuery) :
            k \in {"aliases", "email", "scopes", "other"}}
    \cup {Target("sa-key", "other", "aliases", NoQuery)}
    \cup {Target("sa-key", "default", "token", NoQuery)}
    \cup {Target("sa-key", "default", "identity", q) :
            q \in {NoQuery, OtherQuery} \cup {AudienceQuery(a) : a \in Audiences}}

AllRequests ==
    {[host |-> h, flavor |-> f, route |-> t.route, acct |-> t.acct,
      key |-> t.key, query |-> t.query] :
        h \in Hosts, f \in Flavors, t \in Targets}

\* The targets that are also requested with a foreign Host or without a
\* Metadata-Flavor header.
ProbeTargets ==
    {Target("root", "", "", NoQuery), Target("root", "", "", OtherQuery),
     Target("sa-key", "default", "token", NoQuery)}

WellFormed(r) == r.host \in hostHeaders /\ r.flavor # ""

Requests ==
    {r \in AllRequests :
        \/ WellFormed(r)
        \/ Target(r.route, r.acct, r.key, r.query) \in ProbeTargets}

NoReq ==
    [host |-> "", flavor |-> "", route |-> "none", acct |-> "", key |-> "",
     query |-> NoQuery]

\* r.URL.Path of the routes whose path is fixed.
RootPath == "/"

\* r.RequestURI: the request target as sent, path and raw query.
RequestURI(r) ==
    [path |-> IF r.route = "root" THEN RootPath ELSE r.route,
     rawQuery |-> r.query]

\* r.URL.Query()[name]: the values given for name, in order.
QueryValues(r, name) ==
    SelectSeq(r.query, LAMBDA p : p[1] = name)

(***************************************************************************)
(* Init: the process has parsed its flags; nothing is resolved yet.        *)
(***************************************************************************)
NilCreds ==
    [set |-> FALSE, ProjectID |-> "", TokenSource |-> "none", JSON |-> "none"]

NoExit == [done |-> FALSE, code |-> 0, by |-> "none"]

NoJson == [none |-> TRUE]

NoLast ==
    [req |-> NoReq, status |-> 0, body |-> "", json |-> NoJson,
     calls |-> << >>, source |-> "none"]

\* No token source: the local idTokenSource before it is constructed.
NoSrc == [kind |-> "none", aud |-> ""]

Idle == [pc |-> "idle", req |-> NoReq, src |-> NoSrc]

\* runs counts the passes through main's resolution (lines 438-483).
NoStartup ==
    [variant |-> "none", keyFileRead |-> FALSE, tokenSourceBuilt |-> FALSE,
     runs |-> 0]

Configs ==
    [flnumericProjectID : {"", "cfg-123456"},
     flprojectID : {"", "cfg-project"},
     flserviceAccountEmail : {"", "cfg-sa@example.com"},
     flserviAccountFile : {"", "sa.json"},
     flcustomAttributeFile : {"", "attrs.json"},
     fltokenScopes : {<<"scope1", "scope2">>},
     flImpersonate : BOOLEAN]

\* The flag settings of the serving specification: the three identity flags
\* are all given or all left out.
ConfigsNarrow ==
    {c \in Configs :
        (c.flnumericProjectID = "") = (c.flprojectID = "")
        /\ (c.flprojectID = "") = (c.flserviceAccountEmail = "")}

InitWith(envSets, configs, attrFiles) ==
    /\ env \in {EnvOf(s) : s \in envSets}
    /\ cfg \in configs
    /\ attrFile \in IF cfg.flcustomAttributeFile = ""
                     THEN {[kind |-> "missing"]} ELSE attrFiles
    /\ mainPc = "resolve"
    /\ exit = NoExit
    /\ creds = NilCreds
    /\ customAttributeMap = SeedAttributes
    /\ tokenMutex = 0
    /\ thr = [t \in Goroutines |-> Idle]
    /\ last = NoLast
    /\ startup = NoStartup

(***************************************************************************)
(* Helpers of main.go.                                                     *)
(***************************************************************************)
\* os.Getenv
Getenv(n) == env[n]

\* isEnvironmentOverrideSet with the GOOGLE_ID_TOKEN test left out.
isEnvironmentOverrideSet_NoIDToken ==
    /\ Getenv(googleAccessToken) # ""
    /\ Getenv(googleAccountEmail) # ""
    /\ Getenv(googleNumericProjectID) # ""
    /\ Getenv(googleProjectID) # ""

isEnvironmentOverrideSet ==
    /\ Getenv(googleAccessToken) # ""
    /\ Getenv(googleIDToken) # ""
    /\ Getenv(googleAccountEmail) # ""
    /\ Getenv(googleNumericProjectID) # ""
    /\ Getenv(googleProjectID) # ""

\* os.Exit(code): the process is gone, whatever its goroutines were doing.
\* The exit status the parent sees is the low byte of code.
OsExit(code, by) ==
    /\ mainPc' = "exited"
    /\ exit' = [done |-> TRUE, code |-> code % 256, by |-> by]

\* The guard with && in place of ||: it fires only when all three are empty.
ImpersonateArgsMissing_All ==
    /\ cfg.flnumericProjectID = ""
    /\ cfg.flprojectID = ""
    /\ cfg.flserviceAccountEmail = ""

\* The guard of main's impersonation branch: a required flag is not set.
ImpersonateArgsMissing ==
    \/ cfg.flnumericProjectID = ""
    \/ cfg.flprojectID = ""
    \/ cfg.flserviceAccountEmail = ""

(***************************************************************************)
(* main(): credential resolution, first match wins.                        *)
(***************************************************************************)
\* Branch 1: all five override variables are set.  Nothing is validated, read
\* or constructed; creds stays nil.
ResolveEnvironmentOverride ==
    /\ mainPc = "resolve"
    /\ isEnvironmentOverrideSet
    /\ mainPc' = "attrs"
    /\ startup' = [startup EXCEPT !.variant = "EnvironmentOverride",
                                  !.runs = @ + 1]
    /\ UNCHANGED <<env, cfg, attrFile, exit, creds,
                   customAttributeMap, tokenMutex, thr, last>>

\* Branch 2: impersonation.  argError exits with -1 when a required flag is
\* empty; impersonate.CredentialsTokenSource may fail (exit 1); otherwise
\* creds holds the impersonated token source.
ResolveImpersonate ==
    /\ mainPc = "resolve"
    /\ ~isEnvironmentOverrideSet
    /\ cfg.flImpersonate
    /\ IF ImpersonateArgsMissing
       THEN /\ OsExit(-1, "argError")
            /\ startup' = [startup EXCEPT !.runs = @ + 1]
            /\ UNCHANGED creds
       ELSE \E ok \in BOOLEAN :
               IF ok
               THEN /\ creds' = [set |-> TRUE, ProjectID |-> cfg.flprojectID,
                                 TokenSource |-> "impersonated",
                                 JSON |-> "none"]
                    /\ startup' = [startup EXCEPT
                                      !.variant = "Impersonated",
                                      !.tokenSourceBuilt = TRUE,
                                      !.runs = @ + 1]
                    /\ mainPc' = "attrs"
                    /\ UNCHANGED exit
               ELSE /\ OsExit(1, "resolve")
                    /\ startup' = [startup EXCEPT !.tokenSourceBuilt = TRUE,
                                                  !.runs = @ + 1]
                    /\ UNCHANGED creds
    /\ UNCHANGED <<env, cfg, attrFile, customAttributeMap,
                   tokenMutex, thr, last>>

\* Branch 3: the service-account file.  argError when no path is configured;
\* exit 1 when the file cannot be read or is not a credentials document.
ResolveKeyFile ==
    /\ mainPc = "resolve"
    /\ ~isEnvironmentOverrideSet
    /\ ~cfg.flImpersonate
    /\ IF cfg.flserviAccountFile = ""
       THEN /\ OsExit(-1, "argError")
            /\ startup' = [startup EXCEPT !.runs = @ + 1]
            /\ UNCHANGED creds
       ELSE \E keyFile \in KeyFileKinds :
               IF keyFile \in {"missing", "garbage"}
               THEN /\ OsExit(1, "resolve")
                    /\ startup' = [startup EXCEPT !.keyFileRead = TRUE,
                                                  !.runs = @ + 1]
                    /\ UNCHANGED creds
               ELSE /\ creds' = [set |-> TRUE,
                                 ProjectID |-> IF keyFile = "service_account"
                                               THEN KeyFileProject ELSE "",
                                 TokenSource |-> "keyfile",
                                 JSON |-> keyFile]
                    /\ startup' = [startup EXCEPT
                                      !.variant = "KeyFile",
                                      !.keyFileRead = TRUE,
                                      !.tokenSourceBuilt = TRUE,
                                      !.runs = @ + 1]
                    /\ mainPc' = "attrs"
                    /\ UNCHANGED exit
    /\ UNCHANGED <<env, cfg, attrFile, customAttributeMap,
                   tokenMutex, thr, last>>

(***************************************************************************)
(* setCustomAttributes(cfg.flcustomAttributeFile), called once by main.    *)
(***************************************************************************)
\* The map setCustomAttributes leaves in customAttributeMap.
LoadedAttributes(path, content, prior) ==
    IF path = "" THEN prior
    ELSE IF content.kind = "missing" THEN prior
    ELSE IF Decode(content).err THEN prior
    ELSE Decode(content).data

setCustomAttributes ==
    /\ mainPc = "attrs"
    /\ customAttributeMap' =
          LoadedAttributes(cfg.flcustomAttributeFile, attrFile,
                           customAttributeMap)
    /\ mainPc' = "listen"
    /\ UNCHANGED <<env, cfg, attrFile, exit, creds, tokenMutex,
                   thr, last, startup>>

(***************************************************************************)
(* main(): the listener and shutdown.                                      *)
(***************************************************************************)
\* srv.ListenAndServe() is serving.
ListenAndServe ==
    /\ mainPc = "listen"
    /\ mainPc' = "serving"
    /\ UNCHANGED <<env, cfg, attrFile, exit, creds,
                   customAttributeMap, tokenMutex, thr, last, startup>>

\* srv.ListenAndServe() fails (the port is taken): glog.Fatalf.
ListenFails ==
    /\ mainPc = "listen"
    /\ OsExit(255, "listen")
    /\ UNCHANGED <<env, cfg, attrFile, creds, customAttributeMap,
                   tokenMutex, thr, last, startup>>

\* A signal arrives on done: main calls srv.Shutdown(ctx), which closes the
\* listener; requests in flight go on.
Signal ==
    /\ mainPc = "serving"
    /\ mainPc' = "stopping"
    /\ UNCHANGED <<env, cfg, attrFile, exit, creds,
                   customAttributeMap, tokenMutex, thr, last, startup>>

\* srv.Shutdown(ctx) returns once no request is in flight (ctx is
\* context.Background(): it never expires), and main returns.
ShutdownReturns ==
    /\ mainPc = "stopping"
    /\ \A t \in Goroutines : thr[t].pc = "idle"
    /\ OsExit(0, "shutdown")
    /\ UNCHANGED <<env, cfg, attrFile, creds, customAttributeMap,
                   tokenMutex, thr, last, startup>>

Startup ==
    \/ ResolveEnvironmentOverride
    \/ ResolveImpersonate
    \/ ResolveKeyFile
    \/ setCustomAttributes

AllEnvSets == SUBSET EnvNames

InitStartup == InitWith(AllEnvSets, Configs, AttrFilesWide)

SpecStartup == InitStartup /\ [][Startup]_vars

(***************************************************************************)
(* time: instants and durations in ticks.  A Duration is a signed integer  *)
(* of DurationBits bits (Go: 64 bits of nanoseconds, about 292 years); the *)
(* zero time.Time lies further in the past than a Duration can express, as *)
(* year 1 does from any present-day clock reading.                         *)
(***************************************************************************)
DurationBits == 16
MaxDuration == 2 ^ (DurationBits - 1) - 1
MinDuration == -(2 ^ (DurationBits - 1))
Second == TicksPerSecond

ZeroTime == 0
\* What time.Now() reads.
Now == 2 ^ (DurationBits + 1)

\* t.Sub(u): t - u, saturated to the Duration range.
Sub(t, u) ==
    IF t - u < MinDuration THEN MinDuration
    ELSE IF t - u > MaxDuration THEN MaxDuration
    ELSE t - u

\* lessThanHalf(x, y): x + x < y
lessThanHalf(x, y) == x + x < y

\* d.Round(m), halfway values away from zero; the result saturates when it
\* would leave the Duration range.
Round(d, m) ==
    IF m <= 0 THEN d
    ELSE IF d < 0
    THEN LET r == (-d) % m IN
         IF lessThanHalf(r, m) THEN d + r
         ELSE IF d - m + r >= MinDuration THEN d - m + r
         ELSE MinDuration
    ELSE LET r == d % m IN
         IF lessThanHalf(r, m) THEN d - r
         ELSE IF d + m - r <= MaxDuration THEN d + m - r
         ELSE MaxDuration

\* int(d.Seconds()): the whole seconds of d, truncated toward zero.
IntSeconds(d) ==
    IF d >= 0 THEN d \div Second ELSE -((-d) \div Second)

\* ExpiresIn of getAccessToken: int(tok.Expiry.Sub(now).Round(time.Second).Seconds())
ExpiresIn(expiry, now) == IntSeconds(Round(Sub(expiry, now), Second))

(***************************************************************************)
(* The identity provider.                                                  *)
(***************************************************************************)
\* The time to expiry, in ticks, of the access tokens a token source hands
\* out: a reused token is returned only while it has more than ten seconds
\* left; a fresh one lasts an hour.
Lifetimes ==
    {10 * Second + 1, 3599 * Second + Second \div 2, 3600 * Second}

ProviderAccessToken == "provider-access-token"

\* oauth2.Token as returned by creds.TokenSource.Token()
AccessTokens ==
    {[AccessToken |-> ProviderAccessToken, TokenType |-> "Bearer",
      Expiry |-> Now + l] : l \in Lifetimes}

\* The static token built from the wrong variable.
StaticToken_WrongVariable ==
    [AccessToken |-> Getenv(googleIDToken), TokenType |-> "Bearer",
     Expiry |-> ZeroTime]

\* oauth2.StaticTokenSource(&oauth2.Token{AccessToken: ..., TokenType: "Bearer"}):
\* Expiry is left at the zero time.
StaticToken ==
    [AccessToken |-> Getenv(googleAccessToken), TokenType |-> "Bearer",
     Expiry |-> ZeroTime]

(***************************************************************************)
(* IdentityResolver: getProjectID, getNumericProjectID,                    *)
(* getServiceAccountEmail.  Each yields the value and where it came from.  *)
(***************************************************************************)
\* getProjectID with the configured flag tested before the override.
getProjectID_FlagFirst ==
    IF cfg.flprojectID # ""
    THEN [value |-> cfg.flprojectID, from |-> "flag", nilDeref |-> FALSE]
    ELSE IF isEnvironmentOverrideSet
    THEN [value |-> Getenv(googleProjectID), from |-> "env", nilDeref |-> FALSE]
    ELSE [value |-> creds.ProjectID, from |-> "creds", nilDeref |-> ~creds.set]

getProjectID ==
    IF isEnvironmentOverrideSet
    THEN [value |-> Getenv(googleProjectID), from |-> "env", nilDeref |-> FALSE]
    ELSE IF cfg.flprojectID # ""
    THEN [value |-> cfg.flprojectID, from |-> "flag", nilDeref |-> FALSE]
    ELSE [value |-> creds.ProjectID, from |-> "creds", nilDeref |-> ~creds.set]

getNumericProjectID ==
    IF isEnvironmentOverrideSet
    THEN [value |-> Getenv(googleNumericProjectID), from |-> "env"]
    ELSE [value |-> cfg.flnumericProjectID, from |-> "flag"]

\* google.JWTConfigFromJSON(creds.JSON, emailScope) fails unless the JSON is
\* a service_account key.
JWTConfigFromJSONFails == creds.JSON # "service_account"

\* fatal: the os.Exit(1) of line 188 is reached.
getServiceAccountEmail ==
    IF isEnvironmentOverrideSet
    THEN [value |-> Getenv(googleAccountEmail), from |-> "env",
          fatal |-> FALSE, nilDeref |-> FALSE]
    ELSE IF cfg.flserviceAccountEmail # ""
    THEN [value |-> cfg.flserviceAccountEmail, from |-> "flag",
          fatal |-> FALSE, nilDeref |-> FALSE]
    ELSE IF ~creds.set
    THEN [value |-> "", from |-> "creds", fatal |-> FALSE, nilDeref |-> TRUE]
    ELSE IF JWTConfigFromJSONFails
    THEN [value |-> "", from |-> "creds", fatal |-> TRUE, nilDeref |-> FALSE]
    ELSE [value |-> KeyFileEmail, from |-> "creds", fatal |-> FALSE,
          nilDeref |-> FALSE]

\* The calls that read the variable creds: getProjectID at line 168 and
\* getServiceAccountEmail at line 185, neither under tokenMutex.
getProjectIDReadsCreds == getProjectID.from = "creds"

getServiceAccountEmailReadsCreds == getServiceAccountEmail.from = "creds"

(***************************************************************************)
(* checkMetadataHeaders: TRUE when the request is passed to next.          *)
(***************************************************************************)
hasHostHeader(r) == \E a \in hostHeaders : a = r.host

checkMetadataHeaders(r) ==
    /\ hasHostHeader(r)
    /\ ~(r.flavor = "" /\ RequestURI(r) # [path |-> RootPath, rawQuery |-> NoQuery])

(***************************************************************************)
(* Serving.  An idle goroutine takes a request while the listener is open; *)
(* a request in flight goes on until the process exits.                    *)
(***************************************************************************)
\* A listener opened before main has come to srv.ListenAndServe().
Accepting_BeforeListen(t) == mainPc # "exited" /\ thr[t].pc = "idle"

Accepting(t) == mainPc = "serving" /\ thr[t].pc = "idle"
Running == mainPc \in {"serving", "stopping"}

\* The response written for request r, with what was done to produce it:
\* the provider calls made and the source the value was taken from.
Response(t, r, status, body, json, calls, source) ==
    [req |-> r, status |-> status, body |-> body, json |-> json,
     calls |-> calls, source |-> source]

Plain(t, r, status, body) ==
    Response(t, r, status, body, NoJson, << >>, "none")

\* http.StatusText
StatusText(code) ==
    CASE code = 400 -> "Bad Request"
      [] code = 403 -> "Forbidden"
      [] code = 404 -> "Not Found"
      [] code = 500 -> "Internal Server Error"

\* http.Error(w, http.StatusText(code), code)
HttpError(t, r, code) == Plain(t, r, code, StatusText(code) \o "\n")

\* The handler has returned: the goroutine is idle again.
Done(t, resp) ==
    /\ last' = resp
    /\ thr' = [thr EXCEPT ![t] = Idle]

\* The newline-terminated rendering of strings.Split(cfg.fltokenScopes, ",")
RECURSIVE JoinScopes(_)
JoinScopes(seq) ==
    IF seq = << >> THEN ""
    ELSE Head(seq) \o "\n" \o JoinScopes(Tail(seq))

\* checkMetadataHeaders answers 403 itself.
Forbidden(t) ==
    /\ Accepting(t)
    /\ \E r \in Requests :
          /\ ~checkMetadataHeaders(r)
          /\ Done(t, HttpError(t, r, 403))
    /\ UNCHANGED <<env, cfg, attrFile, mainPc, exit, creds,
                   customAttributeMap, tokenMutex, startup>>

\* The requests of a route that the guard passes to the route's handler.
Admitted(route) ==
    {r \in Requests : r.route = route /\ checkMetadataHeaders(r)}

rootHandler(t) ==
    /\ Accepting(t)
    /\ \E r \in Admitted("root") : Done(t, Plain(t, r, 200, "ok"))
    /\ UNCHANGED <<env, cfg, attrFile, mainPc, exit, creds,
                   customAttributeMap, tokenMutex, startup>>

notFound(t) ==
    /\ Accepting(t)
    /\ \E r \in Admitted("unmatched") : Done(t, HttpError(t, r, 404))
    /\ UNCHANGED <<env, cfg, attrFile, mainPc, exit, creds,
                   customAttributeMap, tokenMutex, startup>>

\* A nil dereference panics; net/http recovers it and drops the connection.
Panicked(t, r) == Plain(t, r, 0, "panic")

projectIDHandler(t) ==
    /\ Accepting(t)
    /\ \E r \in Admitted("project-id") :
          Done(t, IF getProjectID.nilDeref THEN Panicked(t, r)
                  ELSE Response(t, r, 200, getProjectID.value, NoJson, << >>,
                                getProjectID.from))
    /\ UNCHANGED <<env, cfg, attrFile, mainPc, exit, creds,
                   customAttributeMap, tokenMutex, startup>>

numericProjectIDHandler(t) ==
    /\ Accepting(t)
    /\ \E r \in Admitted("numeric-project-id") :
          Done(t, Response(t, r, 200, getNumericProjectID.value, NoJson,
                           << >>, getNumericProjectID.from))
    /\ UNCHANGED <<env, cfg, attrFile, mainPc, exit, creds,
                   customAttributeMap, tokenMutex, startup>>

\* A missing key is answered 200 with the text of http.StatusNotFound.
attributesHandler(t) ==
    /\ Accepting(t)
    /\ \E r \in Admitted("attributes") :
          Done(t, IF r.key \in DOMAIN customAttributeMap
                  THEN Plain(t, r, 200, customAttributeMap[r.key])
                  ELSE Plain(t, r, 200, "404"))
    /\ UNCHANGED <<env, cfg, attrFile, mainPc, exit, creds,
                   customAttributeMap, tokenMutex, startup>>

\* A handler that needs the service-account email: it writes resp, built
\* from the email, unless getServiceAccountEmail ends the process with
\* os.Exit(1).
WithEmail(t, r, resp) ==
    IF getServiceAccountEmail.fatal
    THEN /\ OsExit(1, "request")
         /\ UNCHANGED <<last, thr>>
    ELSE /\ Done(t, IF getServiceAccountEmail.nilDeref
                    THEN Panicked(t, r) ELSE resp)
         /\ UNCHANGED <<mainPc, exit>>

listServiceAccountHandler(t) ==
    /\ Accepting(t)
    /\ \E r \in Admitted("sa-list") :
          WithEmail(t, r,
              Response(t, r, 200,
                       "default/\n" \o getServiceAccountEmail.value \o "/\n",
                       NoJson, << >>, getServiceAccountEmail.from))
    /\ UNCHANGED <<env, cfg, attrFile, creds, customAttributeMap,
                   tokenMutex, startup>>

\* json.Marshal(&serviceAccountDetails{...})
serviceAccountDetails(aliases, email, scopes) ==
    [aliases |-> aliases, email |-> email, scopes |-> scopes]

getServiceAccountIndexHandler(t) ==
    /\ Accepting(t)
    /\ \E r \in Admitted("sa-index") :
          WithEmail(t, r,
              Response(t, r, 200, "",
                       serviceAccountDetails(
                           r.acct, getServiceAccountEmail.value,
                           JoinScopes(cfg.fltokenScopes)),
                       << >>, getServiceAccountEmail.from))
    /\ UNCHANGED <<env, cfg, attrFile, creds, customAttributeMap,
                   tokenMutex, startup>>

\* The audience getServiceAccountHandler passes to getIDToken: k[0].
Audience(r) == QueryValues(r, "audience")[1][2]

\* The handler calls getAccessToken or getIDToken and is now at
\* tokenMutex.Lock().
CallTokenOp(t, r) ==
    /\ thr' = [thr EXCEPT ![t] = [pc |-> "lock", req |-> r, src |-> NoSrc]]
    /\ UNCHANGED last

getServiceAccountHandler(t) ==
    /\ Accepting(t)
    /\ \E r \in Admitted("sa-key") :
          CASE r.key = "aliases" ->
                  /\ Done(t, Plain(t, r, 200, "default"))
                  /\ UNCHANGED <<mainPc, exit>>
            [] r.key = "email" ->
                  WithEmail(t, r,
                      Response(t, r, 200, getServiceAccountEmail.value,
                               NoJson, << >>, getServiceAccountEmail.from))
            [] r.key = "identity" ->
                  /\ IF QueryValues(r, "audience") = << >>
                     THEN Done(t, Plain(t, r, 400,
                                  StatusText(400) \o "\n"
                                  \o "non-empty audience parameter required"))
                     ELSE CallTokenOp(t, r)
                  /\ UNCHANGED <<mainPc, exit>>
            [] r.key = "scopes" ->
                  /\ Done(t, Plain(t, r, 200, JoinScopes(cfg.fltokenScopes)))
                  /\ UNCHANGED <<mainPc, exit>>
            [] r.key = "token" ->
                  /\ CallTokenOp(t, r)
                  /\ UNCHANGED <<mainPc, exit>>
            [] OTHER ->
                  /\ Done(t, HttpError(t, r, 404))
                  /\ UNCHANGED <<mainPc, exit>>
    /\ UNCHANGED <<env, cfg, attrFile, creds, customAttributeMap,
                   tokenMutex, startup>>

(***************************************************************************)
(* TokenIssuer: getAccessToken and getIDToken, both under tokenMutex.      *)
(* getIDToken is two steps: from tokenMutex.Lock() to the call of Token()  *)
(* on the token source (or to an early return), and the return of that     *)
(* call.  getAccessToken, which assigns creds, is three: Lock(), the       *)
(* assignment with the call of Token(), and the return of that call.       *)
(***************************************************************************)
\* Lock() that does not wait.
MutexFree_NoWait == TRUE

\* tokenMutex.Lock() returns only when no goroutine holds the mutex.
MutexFree == tokenMutex = 0

\* An operation that goes on without taking the mutex.
Hold_NotTaken(t) == UNCHANGED tokenMutex

\* t holds the mutex while Token() is in flight.
Hold(t) == tokenMutex' = t

\* The deferred tokenMutex.Unlock().
MutexUnlock == tokenMutex' = 0

\* An Unlock written before each return instead of deferred, and left out
\* on the error returns.
Return_LockKeptOnError(t, resp) ==
    /\ IF resp.status = 500 THEN UNCHANGED tokenMutex ELSE MutexUnlock
    /\ Done(t, resp)

\* The call returns: the deferred Unlock runs and the handler writes resp.
Return(t, resp) ==
    /\ MutexUnlock
    /\ Done(t, resp)

\* metadataToken
metadataToken(tok, now) ==
    [access_token |-> tok.AccessToken,
     expires_in |-> ExpiresIn(tok.Expiry, now),
     token_type |-> tok.TokenType]

\* The assignment of lines 106-109 left out: creds stays as it is.
StaticCreds_NotAssigned == creds

\* The credentials getAccessToken assigns to creds under environment override.
StaticCreds ==
    [set |-> TRUE, ProjectID |-> Getenv(googleProjectID),
     TokenSource |-> "static", JSON |-> "none"]

\* getAccessToken, lines 91-92: tokenMutex.Lock() returns; the Unlock is
\* deferred.
getAccessTokenLock(t) ==
    /\ Running
    /\ thr[t].pc = "lock"
    /\ thr[t].req.key = "token"
    /\ MutexFree
    /\ Hold(t)
    /\ thr' = [thr EXCEPT ![t].pc = "held"]
    /\ UNCHANGED <<env, cfg, attrFile, mainPc, exit, creds,
                   customAttributeMap, last, startup>>

\* getAccessToken, lines 94-111, with the mutex held: under override creds is
\* replaced by a static token source; creds.TokenSource.Token() is called.
getAccessTokenEnter(t) ==
    /\ Running
    /\ thr[t].pc = "held"
    /\ thr[t].req.key = "token"
    /\ creds' = IF isEnvironmentOverrideSet THEN StaticCreds ELSE creds
    /\ IF creds'.set
       THEN /\ thr' = [thr EXCEPT ![t].pc = "fetch",
                                  ![t].src = [kind |-> creds'.TokenSource,
                                              aud |-> ""]]
            /\ UNCHANGED <<last, tokenMutex>>
       ELSE Return(t, Panicked(t, thr[t].req))
    /\ UNCHANGED <<env, cfg, attrFile, mainPc, exit, customAttributeMap,
                   startup>>

\* getAccessToken, lines 111-125: Token() returns.  A static source returns
\* its token; any other source asks the provider, which answers with a token
\* or an error.
getAccessTokenReturns(t) ==
    /\ Running
    /\ thr[t].pc = "fetch"
    /\ thr[t].req.key = "token"
    /\ LET r == thr[t].req
           src == thr[t].src.kind
           call == [op |-> "access", aud |-> "", source |-> src, by |-> t]
       IN IF src = "static"
          THEN Return(t, Response(t, r, 200, "",
                                  metadataToken(StaticToken, Now),
                                  << >>, src))
          ELSE \/ Return(t, Response(t, r, 500, StatusText(500) \o "\n",
                                     NoJson, <<call>>, src))
               \/ \E tok \in AccessTokens :
                     Return(t, Response(t, r, 200, "",
                                        metadataToken(tok, Now),
                                        <<call>>, src))
    /\ UNCHANGED <<env, cfg, attrFile, mainPc, exit, creds,
                   customAttributeMap, startup>>

\* The identity token the provider mints for an audience, for the call of t.
IdentityToken(aud, t) == "id-token(" \o aud \o ")#" \o ToString(t)

\* A token source kept from the previous identity call instead of a new one.
IDTokenSource_Reused(kind, targetAudience) ==
    IF last.calls # << >> /\ last.calls[1].op = "identity"
    THEN [kind |-> kind, aud |-> last.calls[1].aud]
    ELSE [kind |-> kind, aud |-> targetAudience]

\* The token source getIDToken constructs for targetAudience.
IDTokenSource(kind, targetAudience) == [kind |-> kind, aud |-> targetAudience]

\* getIDToken, lines 129-154: the mutex is taken; under override the static
\* ID token is returned; otherwise a token source for the audience is
\* constructed, from impersonation or from creds.JSON, which may fail, and
\* its Token() is called.
getIDTokenEnter(t) ==
    /\ Running
    /\ thr[t].pc = "lock"
    /\ thr[t].req.key = "identity"
    /\ MutexFree
    /\ LET r == thr[t].req
           kind == IF cfg.flImpersonate THEN "impersonated" ELSE "keyfile"
       IN IF isEnvironmentOverrideSet
          THEN Return(t, Response(t, r, 200, Getenv(googleIDToken), NoJson,
                                  << >>, "static"))
          ELSE IF ~cfg.flImpersonate /\ ~creds.set
          THEN Return(t, Panicked(t, r))
          ELSE \/ Return(t, Response(t, r, 500, StatusText(500) \o "\n",
                                     NoJson, << >>, kind))
               \/ /\ Hold(t)
                  /\ thr' = [thr EXCEPT
                                ![t].pc = "fetch",
                                ![t].src = IDTokenSource(kind, Audience(r))]
                  /\ UNCHANGED last
    /\ UNCHANGED <<env, cfg, attrFile, mainPc, exit, creds,
                   customAttributeMap, startup>>

\* getIDToken, lines 154-159: idTokenSource.Token() returns.
getIDTokenReturns(t) ==
    /\ Running
    /\ thr[t].pc = "fetch"
    /\ thr[t].req.key = "identity"
    /\ LET r == thr[t].req
           src == thr[t].src
           call == [op |-> "identity", aud |-> src.aud, source |-> src.kind,
                   by |-> t]
       IN \/ Return(t, Response(t, r, 500, StatusText(500) \o "\n", NoJson,
                                <<call>>, src.kind))
          \/ Return(t, Response(t, r, 200, IdentityToken(src.aud, t), NoJson,
                                <<call>>, src.kind))
    /\ UNCHANGED <<env, cfg, attrFile, mainPc, exit, creds,
                   customAttributeMap, startup>>

(***************************************************************************)
(* The program.                                                            *)
(***************************************************************************)
Serve(t) ==
    \/ Forbidden(t)
    \/ rootHandler(t)
    \/ notFound(t)
    \/ projectIDHandler(t)
    \/ numericProjectIDHandler(t)
    \/ attributesHandler(t)
    \/ listServiceAccountHandler(t)
    \/ getServiceAccountIndexHandler(t)
    \/ getServiceAccountHandler(t)
    \/ getAccessTokenLock(t)
    \/ getAccessTokenEnter(t)
    \/ getAccessTokenReturns(t)
    \/ getIDTokenEnter(t)
    \/ getIDTokenReturns(t)

Next ==
    \/ Startup
    \/ ListenAndServe
    \/ ListenFails
    \/ Signal
    \/ ShutdownReturns
    \/ \E t \in Goroutines : Serve(t)

\* The environments of the serving specification: every override variable
\* set, and all but one set.
NarrowEnvSets == {EnvNames, EnvNames \ {googleIDToken}}

Init == InitWith(NarrowEnvSets, ConfigsNarrow, AttrFilesNarrow)

Spec == Init /\ [][Next]_vars

(***************************************************************************)
(* Scheduling.  The Go scheduler runs every runnable goroutine, and a      *)
(* sync.Mutex hands the lock to a waiter that has been starved for a       *)
(* millisecond, so a goroutine that waits in Lock() gets the mutex if it   *)
(* is freed again and again.  The identity provider is another matter: a   *)
(* call of Token() returns when the provider answers.                      *)
(***************************************************************************)
\* Every step of the token operations that waits for nothing but the
\* scheduler or the mutex is eventually taken.
FairLocking ==
    \A t \in Goroutines :
        /\ SF_vars(getAccessTokenLock(t))
        /\ WF_vars(getAccessTokenEnter(t))
        /\ SF_vars(getIDTokenEnter(t))

\* Every call of Token() returns.
ProviderReturns ==
    \A t \in Goroutines :
        /\ WF_vars(getAccessTokenReturns(t))
        /\ WF_vars(getIDTokenReturns(t))

\* main is scheduled; the provider may keep a call waiting for ever.
SpecShutdown ==
    Init /\ [][Next]_vars /\ WF_vars(ShutdownReturns) /\ FairLocking

\* Fair scheduling with a provider that always answers.
SpecFair ==
    Init /\ [][Next]_vars /\ FairLocking /\ ProviderReturns

(***************************************************************************)
(* Properties.                                                             *)
(***************************************************************************)
\* All five override variables are non-empty.
OverrideEnv == \A n \in EnvNames : env[n] # ""

\* The variant the priority order of the specification selects.
ExpectedVariant ==
    IF OverrideEnv THEN "EnvironmentOverride"
    ELSE IF cfg.flImpersonate THEN "Impersonated"
    ELSE "KeyFile"

\* Goroutine t is inside getAccessToken or getIDToken, holding the mutex.
InFetch(t) == thr[t].pc \in {"held", "fetch"}

\* The last response answers a request that reached the handler of key.
Answered(key) ==
    /\ last.req.route = "sa-key"
    /\ last.req.key = key
    /\ last.status # 403

\* C1: at most one getAccessToken or getIDToken call is inside its fetch
\* section at a time, whatever the two calls are, and it is the one that
\* holds tokenMutex.
C1_OneFetchAtATime ==
    /\ Cardinality({t \in Goroutines : InFetch(t)}) <= 1
    /\ \A t \in Goroutines : InFetch(t) => tokenMutex = t

\* An access-token call is in its fetch section while an identity-token call
\* waits for the mutex.
C1_Witness ==
    \E t, u \in Goroutines :
        /\ InFetch(t) /\ thr[t].req.key = "token"
        /\ thr[u].pc = "lock" /\ thr[u].req.key = "identity"

\* C2: startup selects the variant the priority order gives (override first,
\* then impersonation, then the key file); selecting override validates
\* nothing, reads no file and constructs nothing; and every request-time
\* operation takes its value from the source of that same variant.
SourceOfVariant(source) ==
    CASE source \in {"env", "static"} -> "EnvironmentOverride"
      [] source = "impersonated" -> "Impersonated"
      [] source = "keyfile" -> "KeyFile"
      [] OTHER -> startup.variant

C2_VariantByPriority ==
    /\ startup.variant \in {"none", ExpectedVariant}
    /\ mainPc \notin {"resolve", "exited"} => startup.variant = ExpectedVariant
    /\ OverrideEnv =>
          /\ ~startup.keyFileRead /\ ~startup.tokenSourceBuilt
          /\ exit.by \notin {"argError", "resolve"}
    /\ last.source # "none" =>
          /\ SourceOfVariant(last.source) = startup.variant
          /\ (last.source \in {"flag", "creds"} =>
                 startup.variant # "EnvironmentOverride")
    /\ \A t \in Goroutines :
          InFetch(t) => SourceOfVariant(thr[t].src.kind) = startup.variant

\* Override was selected although impersonation is requested and a key file
\* is configured, and an access token has been served from the static source.
C2_Witness ==
    /\ startup.variant = "EnvironmentOverride"
    /\ cfg.flImpersonate /\ cfg.flserviAccountFile # ""
    /\ Answered("token") /\ last.source = "static"

\* C3: no request makes the process exit.
C3_NoExitWhileServing == ~(exit.done /\ exit.by = "request")

\* C4: a successful getAccessToken reports expiresInSeconds >= 0, and zero
\* under environment override.
C4_ExpiresInNonNegative ==
    (Answered("token") /\ last.status = 200) =>
        /\ last.json.expires_in >= 0
        /\ (OverrideEnv => last.json.expires_in = 0)

\* C5: under environment override every getAccessToken call succeeds with the
\* override access token and type "Bearer", and every getIDToken call
\* succeeds with the override ID token whatever the audience; the provider
\* is not called.
C5_OverrideTokens ==
    OverrideEnv =>
        /\ Answered("token") =>
              /\ last.status = 200
              /\ last.json.access_token = env[googleAccessToken]
              /\ last.json.token_type = "Bearer"
              /\ last.calls = << >>
        /\ (Answered("identity") /\ last.status # 400) =>
              /\ last.status = 200
              /\ last.body = env[googleIDToken]
              /\ last.calls = << >>

\* Under override, with impersonation requested, an identity token has been
\* served for audience "B".
C5_Witness ==
    /\ OverrideEnv /\ cfg.flImpersonate
    /\ Answered("identity") /\ last.status = 200
    /\ Audience(last.req) = "B"

\* C6: getIDToken is only invoked with a non-empty audience: a request whose
\* audience parameter is absent or empty is answered 400 and makes no call.
HasNonEmptyAudience(r) ==
    /\ QueryValues(r, "audience") # << >>
    /\ Audience(r) # ""

C6_NonEmptyAudience ==
    /\ \A t \in Goroutines :
          (thr[t].pc # "idle" /\ thr[t].req.key = "identity") =>
              HasNonEmptyAudience(thr[t].req)
    /\ (Answered("identity") /\ ~HasNonEmptyAudience(last.req)) =>
          last.status = 400 /\ last.calls = << >>

\* C7: setCustomAttributes is all-or-nothing.  After the load the store is
\* the file's mapping when the path is set and the file holds a flat
\* string-to-string JSON object, and its prior value (the seed) otherwise.
FlatStringObject(content) ==
    /\ content.kind = "object"
    /\ \A k \in DOMAIN content.members : content.members[k].t = "string"

FileMapping(content) ==
    [k \in DOMAIN content.members |-> content.members[k].v]

C7_LoadAllOrNothing ==
    mainPc = "listen" =>
        customAttributeMap =
            IF cfg.flcustomAttributeFile # "" /\ FlatStringObject(attrFile)
            THEN FileMapping(attrFile)
            ELSE SeedAttributes

\* C8: the guard passes a request on if and only if its Host is allow-listed
\* and its Metadata-Flavor is non-empty or it is for the root path; any
\* other request is answered 403 and reaches no handler.
ForRootPath(r) == r.route = "root"

ClaimedAdmission(r) ==
    /\ r.host \in hostHeaders
    /\ (r.flavor # "" \/ ForRootPath(r))

C8_GuardAdmission ==
    /\ last.req # NoReq => (last.status # 403 <=> ClaimedAdmission(last.req))
    /\ \A t \in Goroutines :
          thr[t].pc # "idle" => ClaimedAdmission(thr[t].req)

\* C9: with impersonation requested and override not selected, an empty
\* numericProjectId, projectId or serviceAccountEmail ends startup with a
\* non-zero exit before any token source is constructed; the process never
\* gets to load attributes or listen.
C9_Applies ==
    /\ ~OverrideEnv
    /\ cfg.flImpersonate
    /\ \/ cfg.flnumericProjectID = ""
       \/ cfg.flprojectID = ""
       \/ cfg.flserviceAccountEmail = ""

C9_ImpersonationArgsRequired ==
    C9_Applies =>
        /\ mainPc \in {"resolve", "exited"}
        /\ ~startup.tokenSourceBuilt
        /\ creds = NilCreds
        /\ mainPc = "exited" => (exit.done /\ exit.code # 0)

\* Startup has ended by argError with only serviceAccountEmail left out.
C9_Witness ==
    /\ C9_Applies
    /\ cfg.flnumericProjectID # "" /\ cfg.flprojectID # ""
    /\ mainPc = "exited" /\ exit.by = "argError"

\* C10: outside override, every identity token returned was minted by the
\* one provider call made during that getIDToken call, for the audience of
\* that call; a call in flight asks for its own audience.
C10_IdentityTokenPerCall ==
    ~OverrideEnv =>
        /\ (Answered("identity") /\ last.status = 200) =>
              /\ Len(last.calls) = 1
              /\ last.calls[1].op = "identity"
              /\ last.calls[1].aud = Audience(last.req)
              /\ last.body = IdentityToken(Audience(last.req), last.calls[1].by)
        /\ \A t \in Goroutines :
              (InFetch(t) /\ thr[t].req.key = "identity") =>
                  thr[t].src.aud = Audience(thr[t].req)

\* An identity token for "B" has been returned after one for "A" could have
\* been: a second call, for audience "A", is in flight.
C10_Witness ==
    /\ ~OverrideEnv
    /\ Answered("identity") /\ last.status = 200
    /\ Audience(last.req) = "B"
    /\ \E t \in Goroutines :
          /\ InFetch(t) /\ thr[t].req.key = "identity"
          /\ Audience(thr[t].req) = "A"

\* C11: getProjectID returns the override project ID when override is active,
\* otherwise the configured projectId when it is non-empty, otherwise the
\* project ID embedded in the resolved credentials; with conflicting values
\* only the highest-priority one is returned, and the call never dereferences
\* an unresolved credential source.
ProjectIDAnswered == last.req.route = "project-id" /\ last.status # 403

ProjectIDByPriority ==
    IF OverrideEnv THEN env[googleProjectID]
    ELSE IF cfg.flprojectID # "" THEN cfg.flprojectID
    ELSE IF creds.JSON = "service_account" THEN KeyFileProject
    ELSE ""

C11_ProjectIDPriority ==
    /\ ProjectIDAnswered =>
          /\ last.status = 200
          /\ last.body = ProjectIDByPriority
    /\ Running => ~getProjectID.nilDeref

\* The override project ID has been served although a different projectId is
\* configured and creds carries its own project ID.
C11_Witness ==
    /\ OverrideEnv /\ cfg.flprojectID # "" /\ creds.set
    /\ ProjectIDAnswered
    /\ last.body = env[googleProjectID]
    /\ last.body # cfg.flprojectID

\* C12: the alias the server reports is the constant "default" for every
\* {acct} in the path: both the body of the aliases key and the aliases
\* field of the service-account index JSON.
aliasName == "default"

C12_AliasIsDefault ==
    /\ (Answered("aliases") /\ last.status = 200) => last.body = aliasName
    /\ (last.req.route = "sa-index" /\ last.status = 200) =>
          last.json.aliases = aliasName

\* C13: after a signal the process terminates, also when a request in flight
\* never completes because the provider does not return: shutdown does not
\* wait for requests in flight without limit.
C13_ShutdownTerminates == (mainPc = "stopping") ~> (mainPc = "exited")

\* C14: once the listener is serving, no request-time operation assigns
\* creds or its token source.
C14_CredsNeverWritten == [][Running => creds' = creds]_vars

\* C15: tokenMutex is held only by a call that is between its entry and its
\* return, and, under fair scheduling with a provider that always answers,
\* every caller that waits in Lock() is admitted and returns.
LockHeldOnlyInCall ==
    /\ tokenMutex \in Goroutines \cup {0}
    /\ tokenMutex # 0 => InFetch(tokenMutex)

C15_BlockedCallerReturns ==
    /\ []LockHeldOnlyInCall
    /\ \A t \in Goroutines : (thr[t].pc = "lock") ~> (thr[t].pc = "idle")

\* C16: credential resolution runs exactly once and is complete, with the
\* attribute load, before any request handler runs; when resolution fails
\* (impersonation settings missing, no key-file path, key file unreadable
\* or unparsable) the process exits without ever serving a request.
Served == last.req # NoReq \/ \E t \in Goroutines : thr[t].pc # "idle"

ResolutionCannotSucceed ==
    /\ ~OverrideEnv
    /\ IF cfg.flImpersonate
       THEN \/ cfg.flnumericProjectID = ""
            \/ cfg.flprojectID = ""
            \/ cfg.flserviceAccountEmail = ""
       ELSE cfg.flserviAccountFile = ""

ResolutionFailed == exit.by \in {"argError", "resolve"}

C16_ResolveOnceBeforeServing ==
    /\ startup.runs = IF mainPc = "resolve" THEN 0 ELSE 1
    /\ Served =>
          /\ mainPc \in {"serving", "stopping", "exited"}
          /\ startup.variant = ExpectedVariant
          /\ (startup.variant # "EnvironmentOverride" =>
                 creds.set /\ startup.tokenSourceBuilt)
          /\ customAttributeMap =
                LoadedAttributes(cfg.flcustomAttributeFile, attrFile,
                                 SeedAttributes)
          /\ ~ResolutionFailed
    /\ ResolutionFailed => mainPc = "exited" /\ exit.code # 0 /\ ~Served
    /\ (startup.variant = "none" /\ mainPc # "resolve") => ResolutionFailed
    /\ ResolutionCannotSucceed => mainPc \in {"resolve", "exited"} /\ ~Served

\* A request has been served from the key file with the attribute file
\* loaded, after exactly one resolution.
C16_Witness ==
    /\ startup.variant = "KeyFile" /\ startup.runs = 1
    /\ cfg.flcustomAttributeFile # "" /\ customAttributeMap # SeedAttributes
    /\ last.req.route = "attributes" /\ last.status = 200
    /\ last.body = "1"

\* C17: outside override a token request makes at most one provider fetch;
\* when the fetch or the construction of the token source fails the caller
\* is answered 500 at once, with no second attempt, and creds, the attribute
\* store and the mutex are as they were before the request.
TokenRequest(r) == r.route = "sa-key" /\ r.key \in {"token", "identity"}

\* Goroutine t returns from getAccessToken or getIDToken with an error.
FailedReturn(t) ==
    /\ thr[t].pc # "idle" /\ TokenRequest(thr[t].req)
    /\ thr'[t].pc = "idle"
    /\ last'.status # 200

\* The response to a token request records at most one provider call.
AtMostOneFetch ==
    (~OverrideEnv /\ TokenRequest(last.req)) => Len(last.calls) <= 1

C17_FailureNotRetried ==
    /\ []AtMostOneFetch
    /\ [][~OverrideEnv =>
          \A t \in Goroutines :
              FailedReturn(t) =>
                  /\ last'.req = thr[t].req
                  /\ last'.status = 500
                  /\ last'.calls =
                        IF thr[t].pc = "fetch"
                        THEN <<[op |-> IF thr[t].req.key = "token"
                                       THEN "access" ELSE "identity",
                                aud |-> thr[t].src.aud,
                                source |-> thr[t].src.kind, by |-> t]>>
                        ELSE << >>
                  /\ creds' = creds
                  /\ customAttributeMap' = customAttributeMap
                  /\ tokenMutex' = 0
                  /\ UNCHANGED <<mainPc, exit>>]_vars

\* In key-file mode an access-token request has been answered 500 after its
\* one provider call, the mutex is free again and the next caller waits.
C17_Witness ==
    /\ ~OverrideEnv /\ startup.variant = "KeyFile"
    /\ Answered("token") /\ last.status = 500 /\ Len(last.calls) = 1
    /\ tokenMutex = 0
    /\ \E t \in Goroutines : thr[t].pc = "lock"

\* C18: creds is never dereferenced while it is nil, in any mode and for any
\* order of requests: no handler panics, the unguarded readers do not reach
\* their read of creds, and the token operations reach theirs only after
\* creds has been assigned.
\* Goroutine t is about to evaluate creds.TokenSource (line 111) or
\* creds.JSON (line 148).
AboutToDereference(t) ==
    \/ thr[t].pc = "held" /\ ~isEnvironmentOverrideSet
    \/ /\ thr[t].pc = "lock" /\ thr[t].req.key = "identity"
       /\ ~isEnvironmentOverrideSet /\ ~cfg.flImpersonate

C18_NoNilDereference ==
    /\ last.body # Panicked(1, last.req).body
    /\ Running =>
          /\ ~getProjectID.nilDeref
          /\ ~getServiceAccountEmail.nilDeref
          /\ \A t \in Goroutines : AboutToDereference(t) => creds.set
    /\ \A t \in Goroutines :
          (thr[t].pc = "fetch" /\ thr[t].req.key = "token") => creds.set

\* Under override, with creds still nil, an identity request has been
\* answered and an access-token request holds the mutex, about to assign
\* creds.
C18_Witness ==
    /\ OverrideEnv /\ creds = NilCreds
    /\ Answered("identity") /\ last.status = 200
    /\ \E t \in Goroutines : thr[t].pc = "held"

\* C19: there is no data race on creds: while a request is at the
\* assignment of creds inside getAccessToken, no other request can read
\* creds without the mutex (getProjectID, getServiceAccountEmail) and no
\* other request is at a read or write of creds under the mutex.
\* Goroutine t holds the mutex and is at the assignment of lines 106-109.
WritesCreds(t) == thr[t].pc = "held" /\ isEnvironmentOverrideSet

\* Goroutine u is at an access to creds inside a token operation: at lines
\* 106-111 of getAccessToken, or able to go on to line 148 of getIDToken.
LockedAccess(u) ==
    \/ thr[u].pc = "held"
    \/ /\ thr[u].pc = "lock" /\ thr[u].req.key = "identity" /\ MutexFree
       /\ ~isEnvironmentOverrideSet /\ ~cfg.flImpersonate

C19_NoDataRace ==
    \A t \in Goroutines :
        WritesCreds(t) =>
            /\ ~getProjectIDReadsCreds
            /\ ~getServiceAccountEmailReadsCreds
            /\ \A u \in Goroutines \ {t} : ~LockedAccess(u)

\* A second access-token request is at the assignment while creds already
\* holds the credentials of an earlier one, a third request waits for the
\* mutex, and a project-id request has just been answered.
C19_Witness ==
    /\ creds.set
    /\ ProjectIDAnswered /\ last.status = 200
    /\ \E t, u \in Goroutines :
          /\ WritesCreds(t)
          /\ thr[u].pc = "lock" /\ thr[u].req.key = "token"

====
